---------------------------- MODULE Spec2Model ----------------------------
(***************************************************************************)
(* Model of pkg/query/iter.go: the sample cursors (chunk cursor, chunk     *)
(* series iterator, bounded iterator, replica dedup iterator) and the two  *)
(* series sets (grouping set, replica dedup set) of the query layer.       *)
(*                                                                         *)
(* Go slices are 0-based, TLA+ sequences 1-based: an index i of the code   *)
(* is i + 1 here.  A cursor operation of the code mutates the receiver and *)
(* returns a bool; here it is an operator from the cursor's value to a     *)
(* record [ok |-> the bool, it |-> the cursor afterwards].                 *)
(***************************************************************************)
EXTENDS Integers, Sequences, FiniteSets

VARIABLES
    csit,    \* SpecChunk: the cursor newChunkSeriesIterator returned
    cscall,  \* SpecChunk: the last two calls made on csit and what they returned
    bit,     \* SpecBounded: the boundedSeriesIterator
    bcall,   \* SpecBounded: the last two calls made on bit
    dit,     \* SpecDedup, SpecOrder: the dedupSeriesIterator over sides (A, B)
    dcall,   \* SpecDedup: the last call made on dit
    dout,    \* the samples dit has emitted, one entry per successful call
    rit,     \* SpecOrder: the dedupSeriesIterator over sides (B, A)
    rout,    \* SpecOrder: the samples rit has emitted
    gset,    \* SpecGroup: the promSeriesSet and the storeSeriesSet under it
    gout,    \* SpecGroup: the series gset has emitted and the last Next's result
    dset,    \* SpecSet: the dedupSeriesSet and the SeriesSet under it
    dsout    \* SpecSet: the series dset has emitted and the last Next's result

chunkVars == <<csit, cscall>>
boundedVars == <<bit, bcall>>
dedupVars == <<dit, dcall, dout>>
orderVars == <<rit, rout>>
groupVars == <<gset, gout>>
setVars == <<dset, dsout>>
vars == <<chunkVars, boundedVars, dedupVars, orderVars, groupVars, setVars>>

\* The value of the variables of the components a specification leaves out.
Unused == "unused"
IdleChunk == csit = Unused /\ cscall = Unused
IdleBounded == bit = Unused /\ bcall = Unused
IdleDedup == dit = Unused /\ dcall = Unused /\ dout = Unused
IdleOrder == rit = Unused /\ rout = Unused
IdleGroup == gset = Unused /\ gout = Unused
IdleSet == dset = Unused /\ dsout = Unused

---------------------------------------------------------------------------
(* Bounds of the model. *)

\* A chunk holds at most MaxLen samples.
MaxLen == 2
\* A chunk list holds at most MaxChunks chunks.
MaxChunks == 2
\* Sample timestamps of the chunk cursors range over -1 .. MaxT.
MaxT == 2

\* A side of the replica dedup iterator holds at most MaxSide samples.
MaxSide == 3

\* The input stream of the grouping set holds at most MaxSeries Partial Series.
MaxSeries == 3

Times == {0 - 1} \cup (0 .. MaxT)

Range(f) == {f[k] : k \in DOMAIN f}

\* The strictly increasing sequences of at most n timestamps drawn from S.
RECURSIVE IncSeqs(_, _)
IncSeqs(S, n) ==
    IF n = 0 THEN {<< >>}
    ELSE LET shorter == IncSeqs(S, n - 1)
         IN  shorter \cup
             {Append(p[1], p[2]) :
                 p \in {q \in shorter \X S :
                           /\ Len(q[1]) = n - 1
                           /\ (n = 1 \/ q[1][n - 1] < q[2])}}

\* The sequences of at most n elements of S.
SeqsUpTo(S, n) == UNION {[1 .. k -> S] : k \in 0 .. n}

---------------------------------------------------------------------------
(* sample, line 181: a timestamp and a value. *)
Sample(t, v) == [t |-> t, v |-> v]

\* What At() returns from a cursor that has not been advanced: the zero values.
ZeroSample == Sample(0, 0)

---------------------------------------------------------------------------
(* chunkenc.Iterator: the cursor over one chunk, as getFirstIterator hands *)
(* it to the chunk series iterator.  It is either the decoder's iterator   *)
(* over the chunk's samples (kind "xor": pos samples read so far; bad: the *)
(* data after the last sample does not decode, so the read past it fails   *)
(* and sets the error) or an errSeriesIterator (kind "err").               *)

XorIterator(smp, bad) ==
    [kind |-> "xor", smp |-> smp, pos |-> 0, bad |-> bad, err |-> FALSE]

\* errSeriesIterator{err}, lines 307-309; err: whether the error is non-nil.
ErrSeriesIterator(err) ==
    [kind |-> "err", smp |-> << >>, pos |-> 0, bad |-> FALSE, err |-> err]

\* errSeriesIterator's methods, lines 311-314.
ErrSeek(it, t) == [ok |-> FALSE, it |-> it]
ErrNext(it) == [ok |-> FALSE, it |-> it]
ErrAt(it) == ZeroSample
ErrErr(it) == it.err

\* The decoder's iterator: Next reads the next sample, At is the sample last
\* read (the zero values before the first read), Err the decode error.
XorNext(c) ==
    IF c.err THEN [ok |-> FALSE, it |-> c]
    ELSE IF c.pos < Len(c.smp)
         THEN [ok |-> TRUE, it |-> [c EXCEPT !.pos = @ + 1]]
    ELSE IF c.bad THEN [ok |-> FALSE, it |-> [c EXCEPT !.err = TRUE]]
    ELSE [ok |-> FALSE, it |-> c]
XorAt(c) == IF c.pos = 0 THEN ZeroSample ELSE c.smp[c.pos]
XorErr(c) == c.err

\* The calls through the chunkenc.Iterator interface.
ChunkNext(c) == IF c.kind = "err" THEN ErrNext(c) ELSE XorNext(c)
ChunkAt(c) == IF c.kind = "err" THEN ErrAt(c) ELSE XorAt(c)
ChunkErr(c) == IF c.kind = "err" THEN ErrErr(c) ELSE XorErr(c)

---------------------------------------------------------------------------
(* chunkSeriesIterator, lines 362-416. *)

\* newChunkSeriesIterator, lines 369-375: over no chunk it is an
\* errSeriesIterator{} whose err field is left nil.
newChunkSeriesIterator(cs) ==
    IF Len(cs) = 0 THEN ErrSeriesIterator(FALSE)
    ELSE [kind |-> "chunkSeries", chunks |-> cs, i |-> 1]

\* chunkSeriesIterator.At, lines 392-394.
CSAt(it) == ChunkAt(it.chunks[it.i])

\* chunkSeriesIterator.Err, lines 414-416.
CSErrNone(it) == FALSE
CSErr(it) == ChunkErr(it.chunks[it.i])

RECURSIVE CSNext(_), CSSeek(_, _)

\* chunkSeriesIterator.Next, lines 396-412.
CSNext(it) ==
    LET lastT == CSAt(it).t
        r == ChunkNext(it.chunks[it.i])
        it1 == [it EXCEPT !.chunks[it.i] = r.it]
    IN  IF r.ok THEN [ok |-> TRUE, it |-> it1]
        ELSE IF CSErr(it1) THEN [ok |-> FALSE, it |-> it1]
        ELSE IF it1.i >= Len(it1.chunks) THEN [ok |-> FALSE, it |-> it1]
        ELSE CSSeek([it1 EXCEPT !.i = @ + 1], lastT + 1)

\* chunkSeriesIterator.Seek, lines 377-390.
CSSeek(it, t) ==
    IF CSAt(it).t >= t THEN [ok |-> TRUE, it |-> it]
    ELSE LET r == CSNext(it)
         IN  IF ~r.ok THEN [ok |-> FALSE, it |-> r.it]
             ELSE CSSeek(r.it, t)

---------------------------------------------------------------------------
(* The calls through the storage.SeriesIterator interface on what          *)
(* newChunkSeriesIterator returned.                                        *)
SNext(it) == IF it.kind = "err" THEN ErrNext(it) ELSE CSNext(it)
SSeek(it, t) == IF it.kind = "err" THEN ErrSeek(it, t) ELSE CSSeek(it, t)
SAt(it) == IF it.kind = "err" THEN ErrAt(it) ELSE CSAt(it)
SErr(it) == IF it.kind = "err" THEN ErrErr(it) ELSE CSErr(it)

---------------------------------------------------------------------------
(* boundedSeriesIterator, lines 316-360. *)

\* newBoundedSeriesIterator, lines 323-325.
newBoundedSeriesIterator(it, mint, maxt) ==
    [it |-> it, mint |-> mint, maxt |-> maxt]

\* boundedSeriesIterator.Seek, lines 327-335.
BoundedSeek(b, t) ==
    IF t > b.maxt THEN [ok |-> FALSE, it |-> b]
    ELSE LET r == SSeek(b.it, IF t < b.mint THEN b.mint ELSE t)
         IN  [ok |-> r.ok, it |-> [b EXCEPT !.it = r.it]]

\* boundedSeriesIterator.At, lines 337-339.
BoundedAt(b) == SAt(b.it)

\* boundedSeriesIterator.Next, lines 341-356.
BoundedNextNoSeek(b) ==
    LET r == SNext(b.it)
    IN  [ok |-> r.ok /\ SAt(r.it).t <= b.maxt, it |-> [b EXCEPT !.it = r.it]]
BoundedNext(b) ==
    LET r == SNext(b.it)
        b1 == [b EXCEPT !.it = r.it]
    IN  IF ~r.ok THEN [ok |-> FALSE, it |-> b1]
        ELSE IF SAt(b1.it).t < b1.mint
             THEN LET r2 == BoundedSeek(b1, b1.mint)
                  IN  IF ~r2.ok THEN [ok |-> FALSE, it |-> r2.it]
                      ELSE [ok |-> SAt(r2.it.it).t <= b1.maxt, it |-> r2.it]
        ELSE [ok |-> SAt(b1.it).t <= b1.maxt, it |-> b1]

\* boundedSeriesIterator.Err, lines 358-360.
BoundedErr(b) == SErr(b.it)

---------------------------------------------------------------------------
(* The two sides of a dedupSeriesIterator are storage.SeriesIterator       *)
(* values.  They are modelled as the Sample Cursor the contract assumes:   *)
(* a forward-only position pos over a sequence of samples, whose Seek(t)   *)
(* lands on the first sample at or after the position with timestamp >= t. *)

(* A side built with FailingSide ends with an error instead of exhaustion:  *)
(* the Seek that finds no sample returns false and Err is non-nil from     *)
(* then on.                                                                *)

SideCursor(smp) == [smp |-> smp, pos |-> 0, err |-> FALSE, bad |-> FALSE]
FailingSide(smp) == [smp |-> smp, pos |-> 0, err |-> FALSE, bad |-> TRUE]

SideSeek(c, t) ==
    LET from == IF c.pos = 0 THEN 1 ELSE c.pos
        hits == {k \in from .. Len(c.smp) : c.smp[k].t >= t}
    IN  IF hits = {}
        THEN [ok |-> FALSE,
              it |-> [c EXCEPT !.pos = Len(c.smp), !.err = c.bad]]
        ELSE [ok |-> TRUE,
              it |-> [c EXCEPT !.pos = CHOOSE k \in hits :
                                          \A j \in hits : k <= j]]

SideAt(c) == IF c.pos = 0 THEN ZeroSample ELSE c.smp[c.pos]

SideErr(c) == c.err

---------------------------------------------------------------------------
(* dedupSeriesIterator, lines 527-631. *)

\* math.MinInt64, line 540: the least integer.  The model's integers are 32
\* bits wide, so it is the least of those; the code only compares lastT with
\* it and adds 1 and a penalty to it.
MinInt64 == (0 - 2147483647) - 1

\* const initialPenality, line 585.
initialPenality == 5000

\* newDedupSeriesIterator, lines 536-544.
newDedupSeriesIterator(a, b) ==
    [a |-> a, b |-> b, aok |-> TRUE, bok |-> TRUE, lastT |-> MinInt64,
     penA |-> 0, penB |-> 0, useA |-> FALSE]

\* The timestamp a side is sought to, lines 549 and 552.
SeekTarget(lastT, pen) == lastT + 1 + pen

\* The side picked when both are live, line 576: it.useA = ta <= tb.
PickAlwaysA(ta, tb) == TRUE
PickA(ta, tb) == ta <= tb

\* The penalty of the side that was not picked, lines 588-592 and 597-601.
PenaltyNone(lastT, t) == 0
PenaltyOnce(lastT, t) ==
    IF lastT # MinInt64 THEN t - lastT ELSE initialPenality
Penalty(lastT, t) ==
    IF lastT # MinInt64 THEN 2 * (t - lastT) ELSE initialPenality

\* dedupSeriesIterator.Next, lines 546-605.
DedupNext(it) ==
    LET ra == IF it.aok THEN SideSeek(it.a, SeekTarget(it.lastT, it.penA))
              ELSE [ok |-> FALSE, it |-> it.a]
        rb == IF it.bok THEN SideSeek(it.b, SeekTarget(it.lastT, it.penB))
              ELSE [ok |-> FALSE, it |-> it.b]
        it1 == [it EXCEPT !.a = ra.it, !.aok = ra.ok,
                          !.b = rb.it, !.bok = rb.ok]
        ta == SideAt(it1.a).t
        tb == SideAt(it1.b).t
    IN  IF ~it1.aok
        THEN IF it1.bok
             THEN [ok |-> TRUE,
                   it |-> [it1 EXCEPT !.useA = FALSE, !.lastT = tb,
                                      !.penB = 0]]
             ELSE [ok |-> FALSE, it |-> [it1 EXCEPT !.useA = FALSE]]
        ELSE IF ~it1.bok
        THEN [ok |-> TRUE,
              it |-> [it1 EXCEPT !.useA = TRUE, !.lastT = ta, !.penA = 0]]
        ELSE IF PickA(ta, tb)
        THEN [ok |-> TRUE,
              it |-> [it1 EXCEPT !.useA = TRUE,
                                 !.penB = Penalty(it1.lastT, ta),
                                 !.penA = 0, !.lastT = ta]]
        ELSE [ok |-> TRUE,
              it |-> [it1 EXCEPT !.useA = FALSE,
                                 !.penA = Penalty(it1.lastT, tb),
                                 !.penB = 0, !.lastT = tb]]

\* dedupSeriesIterator.At, lines 619-624.
DedupAtOther(it) == IF it.useA THEN SideAt(it.b) ELSE SideAt(it.a)
DedupAt(it) == IF it.useA THEN SideAt(it.a) ELSE SideAt(it.b)

\* dedupSeriesIterator.Seek, lines 607-617.
RECURSIVE DedupSeek(_, _)
DedupSeek(it, t) ==
    LET ts == DedupAt(it).t
    IN  IF ts > 0 /\ ts >= t THEN [ok |-> TRUE, it |-> it]
        ELSE LET r == DedupNext(it)
             IN  IF ~r.ok THEN [ok |-> FALSE, it |-> r.it]
                 ELSE DedupSeek(r.it, t)

\* dedupSeriesIterator.Err, lines 626-631.
DedupErr(it) == IF SideErr(it.a) THEN SideErr(it.a) ELSE SideErr(it.b)

---------------------------------------------------------------------------
(* storeSeriesSet, lines 129-154: the storepb SeriesSet under the grouping *)
(* set.  i counts the series passed (the code's i + 1).                    *)

newStoreSeriesSet(series) == [series |-> series, i |-> 0]

\* storeSeriesSet.Next, lines 140-146.
StoreNext(s) ==
    IF s.i >= Len(s.series) THEN [ok |-> FALSE, set |-> s]
    ELSE [ok |-> TRUE, set |-> [s EXCEPT !.i = @ + 1]]

\* storeSeriesSet.At, lines 152-154.
StoreAt(s) == s.series[s.i]

\* storeSeriesSet.Err, lines 148-150: always nil.
StoreErr(s) == FALSE

\* storepb.CompareLabels as line 51 uses it: 0 exactly for equal label sets.
\* A label set of a Partial Series is a number here.
CompareLabels(a, b) == IF a = b THEN 0 ELSE IF a < b THEN 0 - 1 ELSE 1

---------------------------------------------------------------------------
(* promSeriesSet, lines 18-97.  An AggrChunk is [MinTime, MaxTime, Raw];   *)
(* two chunks have the same String() exactly when all fields are equal.    *)

\* removeExactDuplicates, lines 71-86.
RECURSIVE DropRepeats(_, _)
DropRepeats(ret, rest) ==
    IF rest = << >> THEN ret
    ELSE IF ret[Len(ret)] = Head(rest) THEN DropRepeats(ret, Tail(rest))
    ELSE DropRepeats(Append(ret, Head(rest)), Tail(rest))

RECURSIVE KeepRepeats(_, _)
KeepRepeats(ret, rest) ==
    IF rest = << >> THEN ret
    ELSE IF ret[Len(ret)] # Head(rest) THEN KeepRepeats(ret, Tail(rest))
    ELSE KeepRepeats(Append(ret, Head(rest)), Tail(rest))

\* chks without the first chunk that equals its predecessor.
RECURSIVE removeFirstDuplicate(_)
removeFirstDuplicate(chks) ==
    IF Len(chks) <= 1 THEN chks
    ELSE IF chks[1] = chks[2] THEN Tail(chks)
    ELSE <<chks[1]>> \o removeFirstDuplicate(Tail(chks))

removeExactDuplicatesInverted(chks) ==
    IF Len(chks) <= 1 THEN chks ELSE KeepRepeats(<<Head(chks)>>, Tail(chks))
removeExactDuplicates(chks) ==
    IF Len(chks) <= 1 THEN chks ELSE DropRepeats(<<Head(chks)>>, Tail(chks))

\* s with its element at index k removed.
RemoveAt(s, k) == SubSeq(s, 1, k - 1) \o SubSeq(s, k + 1, Len(s))

\* sort.Slice by MinTime, lines 59-61.  The sort is not stable: every order
\* of the chunks with non-decreasing MinTime is a possible result.
RECURSIVE SortSlice(_)
SortSlice(chks) ==
    IF chks = << >> THEN {<< >>}
    ELSE LET least == {c \in Range(chks) :
                         \A d \in Range(chks) : c.MinTime <= d.MinTime}
         IN  UNION {{<<c>> \o rest :
                       rest \in SortSlice(
                           RemoveAt(chks, CHOOSE k \in 1 .. Len(chks) :
                                              chks[k] = c))} :
                    c \in least}

newPromSeriesSet(series) ==
    [set |-> newStoreSeriesSet(series), done |-> FALSE, initiated |-> FALSE,
     currLset |-> 0, currChunks |-> << >>]

\* The loop of promSeriesSet.Next, lines 45-55: s.done is what the last
\* s.set.Next() returned.
RECURSIVE GatherRun(_)
GatherRun(s) ==
    LET r == StoreNext(s.set)
        s1 == [s EXCEPT !.set = r.set, !.done = r.ok]
    IN  IF ~s1.done THEN s1
        ELSE IF CompareLabels(s1.currLset, StoreAt(s1.set).Labels) # 0 THEN s1
        ELSE GatherRun([s1 EXCEPT
                 !.currChunks = @ \o StoreAt(s1.set).Chunks])

\* promSeriesSet.Next up to the sort, lines 32-55.
PromGather(s) ==
    LET r == StoreNext(s.set)
        s1 == IF ~s.initiated
              THEN [s EXCEPT !.initiated = TRUE, !.set = r.set, !.done = r.ok]
              ELSE s
    IN  IF ~s1.done THEN [ok |-> FALSE, set |-> s1]
        ELSE [ok |-> TRUE,
              set |-> GatherRun([s1 EXCEPT
                          !.currLset = StoreAt(s1.set).Labels,
                          !.currChunks = StoreAt(s1.set).Chunks])]

\* promSeriesSet.Next, lines 32-67: the results it may have, one for every
\* order the sort may leave the chunks in.
PromNext(s) ==
    LET g == PromGather(s)
    IN  IF ~g.ok THEN {g}
        ELSE {[ok |-> TRUE,
               set |-> [g.set EXCEPT
                          !.currChunks = removeExactDuplicates(sorted)]] :
                 sorted \in SortSlice(g.set.currChunks)}

\* promSeriesSet.At, lines 88-93: the series of the current label set and chunks.
PromAt(s) == [lset |-> s.currLset, chunks |-> s.currChunks]

\* promSeriesSet.Err, lines 95-97.
PromErr(s) == StoreErr(s.set)

---------------------------------------------------------------------------
(* SpecChunk: a chunk series iterator over any chunk list, driven by any   *)
(* sequence of Next and Seek calls.                                        *)

\* A chunk as the decoder exposes it: its timestamps, and how it ends.
ChunkShapes ==
    {[ts |-> ts, kind |-> "xor", bad |-> bad] :
        ts \in IncSeqs(Times, MaxLen), bad \in BOOLEAN}
    \cup {[ts |-> << >>, kind |-> "err", bad |-> FALSE]}

\* The value of sample k of chunk c: non-zero, and different for every sample.
ValueOf(c, k) == 10 * c + k

MkCursor(shape, c) ==
    IF shape.kind = "err" THEN ErrSeriesIterator(TRUE)
    ELSE XorIterator([k \in 1 .. Len(shape.ts) |->
                         Sample(shape.ts[k], ValueOf(c, k))], shape.bad)

MkChunks(shapes) == [c \in 1 .. Len(shapes) |-> MkCursor(shapes[c], c)]

SeekTargets == Times \cup {MaxT + 1}

NoCall ==
    [op |-> "none", arg |-> 0, ok |-> FALSE, at |-> ZeroSample,
     prevOp |-> "none", prevOk |-> FALSE, prevAt |-> ZeroSample]

Called(call, op, arg, ok, at) ==
    [op |-> op, arg |-> arg, ok |-> ok, at |-> at,
     prevOp |-> call.op, prevOk |-> call.ok, prevAt |-> call.at]

InitChunk ==
    /\ csit \in {newChunkSeriesIterator(MkChunks(s)) :
                    s \in SeqsUpTo(ChunkShapes, MaxChunks)}
    /\ cscall = NoCall
    /\ IdleBounded /\ IdleDedup /\ IdleOrder /\ IdleGroup /\ IdleSet

CallCSNext ==
    LET r == SNext(csit)
    IN  /\ csit' = r.it
        /\ cscall' = Called(cscall, "Next", 0, r.ok, SAt(r.it))
        /\ UNCHANGED <<boundedVars, dedupVars, orderVars, groupVars, setVars>>

CallCSSeek ==
    \E t \in SeekTargets :
        LET r == SSeek(csit, t)
        IN  /\ csit' = r.it
            /\ cscall' = Called(cscall, "Seek", t, r.ok, SAt(r.it))
            /\ UNCHANGED <<boundedVars, dedupVars, orderVars, groupVars,
                           setVars>>

NextChunk == CallCSNext \/ CallCSSeek

SpecChunk == InitChunk /\ [][NextChunk]_vars

---------------------------------------------------------------------------
(* Claims about the chunk series iterator. *)

\* The timestamps of the samples of chunk cursor c.
TsOf(c) == [k \in 1 .. Len(c.smp) |-> c.smp[k].t]

\* The chunk list is non-empty, every chunk decodes without error and holds a
\* sample, the chunks are sorted by start time, and no chunk occurs twice.
SortedDedupedChunks(it) ==
    /\ it.kind = "chunkSeries"
    /\ \A c \in 1 .. Len(it.chunks) :
           /\ it.chunks[c].kind = "xor"
           /\ ~it.chunks[c].bad
           /\ Len(it.chunks[c].smp) > 0
    /\ \A c, d \in 1 .. Len(it.chunks) :
           c < d => /\ it.chunks[c].smp[1].t <= it.chunks[d].smp[1].t
                    /\ TsOf(it.chunks[c]) # TsOf(it.chunks[d])

\* C2: over a non-empty chunk list sorted by start time without duplicates,
\* two successive successful Next calls of the chunk series iterator expose
\* strictly increasing timestamps.
C2_StrictlyIncreasing ==
    (/\ SortedDedupedChunks(csit)
     /\ cscall.prevOp = "Next" /\ cscall.prevOk
     /\ cscall.op = "Next" /\ cscall.ok)
    => cscall.prevAt.t < cscall.at.t

\* C10: a chunk series iterator constructed over an empty chunk list fails
\* every Next and Seek and reports a non-nil error.
C10_EmptyChunkListIsError ==
    (csit.kind = "err" /\ cscall.op # "none")
    => (~cscall.ok /\ SErr(csit))

\* The number of samples in a list of chunks.
RECURSIVE SamplesIn(_)
SamplesIn(shapes) ==
    IF shapes = << >> THEN 0
    ELSE Len(Head(shapes).ts) + SamplesIn(Tail(shapes))

\* SpecChunkErr: the chunk series iterator over the chunk lists that hold at
\* most MaxLen samples in all, driven by any sequence of Next and Seek calls.
InitChunkErr ==
    /\ csit \in {newChunkSeriesIterator(MkChunks(s)) :
                    s \in {x \in SeqsUpTo(ChunkShapes, MaxChunks) :
                              SamplesIn(x) <= MaxLen}}
    /\ cscall = NoCall
    /\ IdleBounded /\ IdleDedup /\ IdleOrder /\ IdleGroup /\ IdleSet

SpecChunkErr == InitChunkErr /\ [][NextChunk]_vars

\* C18: a Next of the chunk series iterator whose active chunk cursor fails
\* to advance and holds an error returns false; from a state whose active
\* chunk cursor holds an error no call changes the active chunk index, and
\* Err stays non-nil; and the index only moves forward, past chunks that are
\* exhausted without error and are not the last.
C18_ErrorStopsAtChunk ==
    [][(csit.kind = "chunkSeries" /\ cscall' # cscall) =>
          LET c == csit.chunks[csit.i]
              r == ChunkNext(c)
          IN  /\ (cscall'.op = "Next" /\ ~r.ok /\ ChunkErr(r.it)) =>
                     (~cscall'.ok /\ csit'.i = csit.i
                          /\ ChunkErr(csit'.chunks[csit'.i]))
              /\ ChunkErr(c) =>
                     (csit'.i = csit.i /\ ChunkErr(csit'.chunks[csit'.i]))
              /\ csit'.i >= csit.i
              /\ \A j \in csit.i .. csit'.i - 1 :
                     /\ j < Len(csit.chunks)
                     /\ ~ChunkErr(csit'.chunks[j])
                     /\ csit'.chunks[j].pos = Len(csit'.chunks[j].smp)]_vars

\* A Next has returned false on the error of a chunk that is not the last,
\* after a Next that returned a sample.
C18_Witness ==
    /\ csit.kind = "chunkSeries" /\ csit.i < Len(csit.chunks)
    /\ csit.chunks[csit.i].kind = "xor" /\ ChunkErr(csit.chunks[csit.i])
    /\ cscall.op = "Next" /\ ~cscall.ok
    /\ cscall.prevOp = "Next" /\ cscall.prevOk

\* C20: whenever a Next or a Seek(t) of the chunk series iterator has
\* returned true, the active chunk cursor is a decoder's cursor that has read
\* at least one sample, the current sample is the sample it read last, and
\* after Seek(t) its timestamp is >= t.
C20_OnlyChunkSamples ==
    (cscall.op # "none" /\ cscall.ok) =>
        /\ csit.kind = "chunkSeries"
        /\ LET c == csit.chunks[csit.i]
           IN  /\ c.kind = "xor" /\ c.pos >= 1
               /\ cscall.at = c.smp[c.pos]
        /\ cscall.op = "Seek" => cscall.at.t >= cscall.arg

---------------------------------------------------------------------------
(* SpecBounded: a bounded iterator over a chunk series iterator, as        *)
(* chunkSeries.Iterator composes them (lines 208 and 259), driven by any   *)
(* sequence of Next and Seek calls.                                        *)

\* The chunks that decode without error.
CleanShapes == {sh \in ChunkShapes : sh.kind = "xor" /\ ~sh.bad}

InitBounded ==
    /\ bit \in {newBoundedSeriesIterator(
                    newChunkSeriesIterator(MkChunks(s)), mint, maxt) :
                    s \in SeqsUpTo(CleanShapes, MaxChunks),
                    mint \in Times, maxt \in Times}
    /\ bit.mint <= bit.maxt
    /\ bcall = NoCall
    /\ IdleChunk /\ IdleDedup /\ IdleOrder /\ IdleGroup /\ IdleSet

CallBoundedNext ==
    LET r == BoundedNext(bit)
    IN  /\ bit' = r.it
        /\ bcall' = Called(bcall, "Next", 0, r.ok, BoundedAt(r.it))
        /\ UNCHANGED <<chunkVars, dedupVars, orderVars, groupVars, setVars>>

CallBoundedSeek ==
    \E t \in SeekTargets :
        LET r == BoundedSeek(bit, t)
        IN  /\ bit' = r.it
            /\ bcall' = Called(bcall, "Seek", t, r.ok, BoundedAt(r.it))
            /\ UNCHANGED <<chunkVars, dedupVars, orderVars, groupVars,
                           setVars>>

NextBounded == CallBoundedNext \/ CallBoundedSeek

SpecBounded == InitBounded /\ [][NextBounded]_vars

---------------------------------------------------------------------------
(* Claims about the bounded iterator. *)

\* The timestamps of all chunks of a chunk series iterator, in chunk order.
RECURSIVE AllTs(_, _)
AllTs(chunks, c) ==
    IF c > Len(chunks) THEN << >>
    ELSE TsOf(chunks[c]) \o AllTs(chunks, c + 1)

StrictlyIncreasing(ts) == \A k \in 1 .. Len(ts) - 1 : ts[k] < ts[k + 1]

\* The wrapped cursor is a chunk series iterator whose samples, taken chunk
\* after chunk, have strictly increasing positive timestamps, and the window
\* starts at a positive time.
IncreasingWrapped(b) ==
    /\ b.it.kind = "chunkSeries"
    /\ StrictlyIncreasing(AllTs(b.it.chunks, 1))
    /\ \A c \in 1 .. Len(b.it.chunks) :
           \A k \in 1 .. Len(b.it.chunks[c].smp) : b.it.chunks[c].smp[k].t > 0
    /\ b.mint > 0

\* C1: over a wrapped cursor with strictly increasing timestamps, every Next
\* and Seek of the bounded iterator that returns true leaves the current
\* timestamp within [mint, maxt], and every Seek(t) with t > maxt returns false.
C1_WithinWindow ==
    IncreasingWrapped(bit) =>
        /\ (bcall.op # "none" /\ bcall.ok) =>
               (bit.mint <= bcall.at.t /\ bcall.at.t <= bit.maxt)
        /\ (bcall.op = "Seek" /\ bcall.arg > bit.maxt) => ~bcall.ok

\* C13: over a wrapped cursor with strictly increasing timestamps, the call
\* that follows a Next which returned false on a sample beyond maxt returns
\* false, whether it is a Next or a Seek.
C13_OneWayGate ==
    IncreasingWrapped(bit) =>
        ((bcall.prevOp = "Next" /\ ~bcall.prevOk
             /\ bcall.prevAt.t > bit.maxt)
         => ~bcall.ok)

---------------------------------------------------------------------------
(* SpecDedup: a replica dedup iterator over two sides, driven by any       *)
(* sequence of Next and Seek calls.                                        *)

\* The timestamps of the sides: near 0, just beyond the initial penalty, and
\* beyond twice that distance again, so that a side can survive a penalty.
DedupBases == {0, initialPenality + 1, 3 * (initialPenality + 1)}
DedupTimes == {b + k : b \in DedupBases, k \in {0, 1}}

\* The samples of a side (0: A, 1: B): sample k has value 10 * k + side.
SideSamples(side, ts) ==
    [k \in 1 .. Len(ts) |-> Sample(ts[k], 10 * k + side)]

\* A = [(0,1),(10,2),(20,3)], B = [(5,1.1),(15,2.1),(25,3.1)], values times 10.
ExampleA == <<0, 10, 20>>
ExampleB == <<5, 15, 25>>

SidePairs ==
    (IncSeqs(DedupTimes, MaxSide) \X IncSeqs(DedupTimes, MaxSide))
    \cup {<<ExampleA, ExampleB>>}

DedupSeekTargets == {0 - 1} \cup DedupTimes

\* The sample a call left the iterator on: its side, whether both sides were
\* live when a Next picked it, and lastT before the call.  dcall.sought tells
\* whether Seek has been called at all.
Emitted(before, after, op) ==
    [t |-> DedupAt(after).t, v |-> DedupAt(after).v,
     side |-> IF after.useA THEN "A" ELSE "B",
     both |-> op = "Next" /\ after.aok /\ after.bok,
     L |-> before.lastT, op |-> op]

InitDedup ==
    /\ \E p \in SidePairs :
           dit = newDedupSeriesIterator(SideCursor(SideSamples(0, p[1])),
                                        SideCursor(SideSamples(1, p[2])))
    /\ dcall = [op |-> "none", arg |-> 0, ok |-> FALSE, sought |-> FALSE]
    /\ dout = << >>
    /\ IdleChunk /\ IdleBounded /\ IdleOrder /\ IdleGroup /\ IdleSet

CallDedupNext ==
    /\ Len(dout) <= 2 * MaxSide
    /\ LET r == DedupNext(dit)
       IN  /\ dit' = r.it
           /\ dcall' = [op |-> "Next", arg |-> 0, ok |-> r.ok,
                       sought |-> dcall.sought]
           /\ dout' = IF r.ok THEN Append(dout, Emitted(dit, r.it, "Next"))
                      ELSE dout
    /\ UNCHANGED <<chunkVars, boundedVars, orderVars, groupVars, setVars>>

CallDedupSeek ==
    /\ Len(dout) <= 2 * MaxSide
    /\ \E t \in DedupSeekTargets :
           LET r == DedupSeek(dit, t)
           IN  /\ dit' = r.it
               /\ dcall' = [op |-> "Seek", arg |-> t, ok |-> r.ok,
                           sought |-> TRUE]
               /\ dout' = IF r.ok /\ r.it # dit
                          THEN Append(dout, Emitted(dit, r.it, "Seek"))
                          ELSE dout
    /\ UNCHANGED <<chunkVars, boundedVars, orderVars, groupVars, setVars>>

NextDedup == CallDedupNext \/ CallDedupSeek

SpecDedup == InitDedup /\ [][NextDedup]_vars

---------------------------------------------------------------------------
(* Claims about the replica dedup iterator. *)

\* The samples of the side an emitted sample is attributed to, and of the other.
SideOf(it, e) == IF e.side = "A" THEN it.a.smp ELSE it.b.smp
OtherSideOf(it, e) == IF e.side = "A" THEN it.b.smp ELSE it.a.smp

\* C3: the timestamps the dedup iterator emits are strictly increasing, every
\* emitted sample is a sample of the side picked and of that side only, it is
\* what At() returns after the Next that emitted it, and the sides A = 0, 10, 20 and
\* B = 5, 15, 25 drained with Next give one sample per neighbourhood: 0, 10, 20.
C3_DedupMonotonic ==
    /\ \A k \in 1 .. Len(dout) - 1 : dout[k].t < dout[k + 1].t
    /\ \A k \in 1 .. Len(dout) :
           /\ Sample(dout[k].t, dout[k].v) \in Range(SideOf(dit, dout[k]))
           /\ Sample(dout[k].t, dout[k].v) \notin Range(OtherSideOf(dit, dout[k]))
    /\ (dcall.op = "Next" /\ dcall.ok) =>
           /\ Len(dout) > 0
           /\ DedupAt(dit) = Sample(dout[Len(dout)].t, dout[Len(dout)].v)
    /\ (/\ TsOf(dit.a) = ExampleA /\ TsOf(dit.b) = ExampleB
        /\ dcall.op = "Next" /\ ~dcall.ok /\ ~dcall.sought)
       => [k \in 1 .. Len(dout) |-> Sample(dout[k].t, dout[k].v)]
              = <<Sample(0, 10), Sample(10, 20), Sample(20, 30)>>

\* Both sides have emitted, and the iterator has emitted at least three samples.
C3_Witness ==
    /\ Len(dout) >= 3
    /\ \E j, k \in 1 .. Len(dout) : dout[j].side = "A" /\ dout[k].side = "B"
    /\ dcall.op = "Next" /\ dcall.ok

\* The least timestamp the other side may emit after emission e.
PenaltyWindowEnd(e) ==
    e.t + 1 + (IF e.L = MinInt64 THEN 5000 ELSE 2 * (e.t - e.L))

\* C4: after a Next with both sides live has emitted t from one side, with L
\* emitted before it, every sample emitted later from the other side has a
\* timestamp >= t + 1 + 2 * (t - L), or >= t + 1 + 5000 if t was the first.
C4_PenaltyWindow ==
    \A j, k \in 1 .. Len(dout) :
        (j < k /\ dout[j].both /\ dout[k].side # dout[j].side)
        => dout[k].t >= PenaltyWindowEnd(dout[j])

\* A Next with both sides live emitted a sample that was not the first, and
\* the other side has emitted since.
C4_Witness ==
    \E j, k \in 1 .. Len(dout) :
        /\ j < k /\ dout[j].both /\ dout[k].side # dout[j].side
        /\ dout[j].L # MinInt64

\* C16: after a Next that found both sides live after their seeks, side A is
\* the selected one exactly when ta <= tb, the selected side's penalty is 0,
\* lastT is the selected timestamp, and the other side's penalty is twice
\* the distance from the timestamp emitted before to the selected one, or
\* 5000 when nothing was emitted before; after a Next that found one side
\* live only, that side is selected and its penalty is 0.
C16_SelectionAndPenalty ==
    (dcall.op = "Next" /\ dcall.ok) =>
        LET ta == SideAt(dit.a).t
            tb == SideAt(dit.b).t
            sel == IF dit.useA THEN ta ELSE tb
            penSel == IF dit.useA THEN dit.penA ELSE dit.penB
            penOther == IF dit.useA THEN dit.penB ELSE dit.penA
        IN  /\ (dit.aok /\ dit.bok) =>
                   /\ dit.useA <=> ta <= tb
                   /\ penSel = 0
                   /\ dit.lastT = sel
                   /\ penOther = IF Len(dout) = 1 THEN 5000
                                  ELSE 2 * (sel - dout[Len(dout) - 1].t)
            /\ (dit.aok /\ ~dit.bok) => (dit.useA /\ dit.penA = 0)
            /\ (~dit.aok /\ dit.bok) => (~dit.useA /\ dit.penB = 0)

\* A Next with both sides live has selected side B, not as the first sample.
C16_Witness ==
    /\ dcall.op = "Next" /\ dcall.ok /\ dit.aok /\ dit.bok
    /\ ~dit.useA /\ Len(dout) >= 2 /\ dit.penA > 0

\* The merged output from it on: Next repeated until it has emitted a
\* timestamp >= t or has returned false.
RECURSIVE NextUntil(_, _)
NextUntil(it, t) ==
    LET r == DedupNext(it)
    IN  IF ~r.ok THEN r
        ELSE IF DedupAt(r.it).t >= t THEN r
        ELSE NextUntil(r.it, t)

\* C17: a Seek(t) made while the iterator is on an emitted sample with a
\* timestamp >= t returns true and leaves the iterator as it is; any other
\* Seek(t) returns what repeated Next gives: true on the first later sample
\* of the merged output with a timestamp >= t, false when there is none.
C17_SeekFirstAtOrAfter ==
    [][dcall'.op = "Seek" =>
          LET t == dcall'.arg
          IN  IF dcall.ok /\ DedupAt(dit).t >= t
              THEN dcall'.ok /\ dit' = dit
              ELSE LET e == NextUntil(dit, t)
                   IN  /\ dcall'.ok = e.ok
                       /\ e.ok => DedupAt(dit') = DedupAt(e.it)]_vars

---------------------------------------------------------------------------
(* SpecOrder: the two sides merged in both orders, dit = merge(A, B) and   *)
(* rit = merge(B, A), each over cursors of its own, and each drained with  *)
(* Next.                                                                   *)

InitOrder ==
    /\ \E p \in SidePairs :
           LET A == SideCursor(SideSamples(0, p[1]))
               B == SideCursor(SideSamples(1, p[2]))
           IN  /\ dit = newDedupSeriesIterator(A, B)
               /\ rit = newDedupSeriesIterator(B, A)
    /\ dcall = [op |-> "none", arg |-> 0, ok |-> FALSE, sought |-> FALSE]
    /\ dout = << >>
    /\ rout = [log |-> << >>, done |-> FALSE]
    /\ IdleChunk /\ IdleBounded /\ IdleGroup /\ IdleSet

DrainedAB == dcall.op = "Next" /\ ~dcall.ok

\* One Next of merge(A, B), until it has returned false.
OrderNextAB ==
    /\ ~DrainedAB
    /\ LET r == DedupNext(dit)
       IN  /\ dit' = r.it
           /\ dcall' = [op |-> "Next", arg |-> 0, ok |-> r.ok,
                       sought |-> FALSE]
           /\ dout' = IF r.ok THEN Append(dout, Emitted(dit, r.it, "Next"))
                      ELSE dout
    /\ UNCHANGED <<chunkVars, boundedVars, orderVars, groupVars, setVars>>

\* One Next of merge(B, A), until it has returned false.
OrderNextBA ==
    /\ ~rout.done
    /\ LET r == DedupNext(rit)
       IN  /\ rit' = r.it
           /\ rout' = [log |-> IF r.ok THEN Append(rout.log, DedupAt(r.it))
                               ELSE rout.log,
                       done |-> ~r.ok]
    /\ UNCHANGED <<chunkVars, boundedVars, dedupVars, groupVars, setVars>>

NextOrder == OrderNextAB \/ OrderNextBA

SpecOrder == InitOrder /\ [][NextOrder]_vars

\* The samples merge(A, B) has emitted.
OutAB == [k \in 1 .. Len(dout) |-> Sample(dout[k].t, dout[k].v)]

BothDrained == DrainedAB /\ rout.done

\* The timestamps that both A and B hold.
SharedTimes == Range(TsOf(dit.a)) \cap Range(TsOf(dit.b))

\* C5 as claimed: drained with Next, merge(A, B) and merge(B, A) emit the same
\* sequence of timestamps, and the same values except at timestamps that both
\* A and B hold.
C5_OrderInsensitive ==
    BothDrained =>
        /\ Len(OutAB) = Len(rout.log)
        /\ \A k \in 1 .. Len(OutAB) :
               /\ k <= Len(rout.log)
               /\ OutAB[k].t = rout.log[k].t
               /\ OutAB[k].v # rout.log[k].v => OutAB[k].t \in SharedTimes

\* C5 as amended: when A and B hold no timestamp in common, merge(A, B) and
\* merge(B, A), drained with Next, emit the same samples in the same order.
C5_OrderInsensitiveNoTie ==
    (BothDrained /\ SharedTimes = {}) => OutAB = rout.log

\* Both merges are drained, A and B hold no common timestamp, and both sides
\* have emitted.
C5_Witness ==
    /\ BothDrained /\ SharedTimes = {}
    /\ \E j, k \in 1 .. Len(dout) : dout[j].side = "A" /\ dout[k].side = "B"
    /\ Len(rout.log) >= 3

---------------------------------------------------------------------------
(* SpecGroup: the grouping set over any stream of Partial Series, advanced *)
(* with Next until after it has returned false.                            *)

\* The chunks of the streams: two chunks of the same time range with different
\* data, and one of a later, disjoint range.
AggrChunks ==
    {[MinTime |-> 1, MaxTime |-> 2, Raw |-> "x"],
     [MinTime |-> 1, MaxTime |-> 2, Raw |-> "y"],
     [MinTime |-> 3, MaxTime |-> 4, Raw |-> "x"]}

\* The label sets of the Partial Series.
GroupLsets == {1, 2}

PartialSeries ==
    {[Labels |-> l, Chunks |-> c] :
        l \in GroupLsets, c \in SeqsUpTo(AggrChunks, 2)}

InitGroup ==
    /\ gset \in {newPromSeriesSet(in) : in \in SeqsUpTo(PartialSeries, MaxSeries)}
    /\ gout = [log |-> << >>, ret |-> "none"]
    /\ IdleChunk /\ IdleBounded /\ IdleDedup /\ IdleOrder /\ IdleSet

\* The result of a Next call, as gout.ret records it.
Ret(ok) == IF ok THEN "true" ELSE "false"

CallPromNext ==
    /\ \E r \in PromNext(gset) :
           /\ gset' = r.set
           /\ gout' = [log |-> IF r.ok THEN Append(gout.log, PromAt(r.set))
                               ELSE gout.log,
                       ret |-> Ret(r.ok)]
    /\ UNCHANGED <<chunkVars, boundedVars, dedupVars, orderVars, setVars>>

NextGroup == CallPromNext

SpecGroup == InitGroup /\ [][NextGroup]_vars

---------------------------------------------------------------------------
(* Claims about the grouping set. *)

\* The maximal runs of consecutive Partial Series with equal label sets: the
\* label set of each run and its chunks in arrival order.
RECURSIVE RunsOf(_)
RunsOf(in) ==
    IF in = << >> THEN << >>
    ELSE LET h == Head(in)
             rest == RunsOf(Tail(in))
         IN  IF rest # << >> /\ rest[1].lset = h.Labels
             THEN <<[lset |-> h.Labels, chunks |-> h.Chunks \o rest[1].chunks,
                     n |-> rest[1].n + 1]>> \o Tail(rest)
             ELSE <<[lset |-> h.Labels, chunks |-> h.Chunks, n |-> 1]>> \o rest

\* Partial Series with equal label sets are contiguous in the stream.
Contiguous(in) ==
    \A j, k \in 1 .. Len(in) :
        (j < k /\ in[j].Labels = in[k].Labels)
        => \A m \in j .. k : in[m].Labels = in[j].Labels

\* The chunks have pairwise disjoint time ranges.
DisjointRanges(chks) ==
    \A j, k \in 1 .. Len(chks) :
        j # k => \/ chks[j].MaxTime < chks[k].MinTime
                 \/ chks[k].MaxTime < chks[j].MinTime

\* C6: over a stream whose equal label sets are contiguous, the grouping set
\* emits the runs' label sets one per run and in order, reports exhaustion
\* after the last run and not before, and a run of chunks with pairwise
\* disjoint time ranges keeps all its chunks.
C6_OneSeriesPerRun ==
    LET in == gset.set.series
        runs == RunsOf(in)
    IN  Contiguous(in) =>
            /\ Len(gout.log) <= Len(runs)
            /\ \A k \in 1 .. Len(gout.log) :
                   /\ k <= Len(runs)
                   /\ gout.log[k].lset = runs[k].lset
                   /\ DisjointRanges(runs[k].chunks) =>
                          Len(gout.log[k].chunks) = Len(runs[k].chunks)
            /\ gout.ret = "false" => Len(gout.log) = Len(runs)

\* The set is exhausted after two runs, one of them made of two Partial
\* Series whose chunks have disjoint time ranges.
C6_Witness ==
    LET in == gset.set.series
        runs == RunsOf(in)
    IN  /\ Contiguous(in) /\ gout.ret = "false" /\ Len(gout.log) = 2
        /\ \E k \in 1 .. Len(runs) :
               /\ runs[k].n = 2 /\ Len(runs[k].chunks) >= 2
               /\ DisjointRanges(runs[k].chunks)
               /\ in[1].Chunks # << >> /\ in[2].Chunks # << >>

\* C7: after every successful Next of the grouping set the current chunk list
\* is sorted by MinTime and holds no two identical chunks.
C7_SortedNoDuplicates ==
    gout.ret = "true" =>
        \A j, k \in 1 .. Len(gset.currChunks) :
            j < k => /\ gset.currChunks[j].MinTime <= gset.currChunks[k].MinTime
                     /\ gset.currChunks[j] # gset.currChunks[k]

---------------------------------------------------------------------------
(* dedupSeriesSet, lines 418-497.  A label is [Name, Value]; a label set is *)
(* a sequence of labels; a series of the underlying set is [Labels, id],    *)
(* id being its position in the stream.                                     *)

\* The underlying storage.SeriesSet: a cursor over a list of series.
SliceSet(series) == [series |-> series, i |-> 0]
SliceNext(s) ==
    IF s.i >= Len(s.series) THEN [ok |-> FALSE, set |-> s]
    ELSE [ok |-> TRUE, set |-> [s EXCEPT !.i = @ + 1]]
SliceAt(s) == s.series[s.i]
SliceErr(s) == FALSE

\* The samples of the series at position id of the stream, and its cursor.
SamplesOf(id) == <<Sample(id, 10 * id), Sample(id + 10, 10 * id + 1)>>
SeriesIterator(series) == SideCursor(SamplesOf(series.id))

\* newDedupSeriesSet, lines 428-435.
newDedupSeriesSet(set, replicaLabels) ==
    LET r == SliceNext(set)
    IN  [set |-> r.set, replicaLabels |-> replicaLabels, replicas |-> << >>,
         lset |-> << >>, ok |-> r.ok,
         peek |-> IF r.ok THEN SliceAt(r.set) ELSE Unused]

\* peekLset, lines 450-464.  Go's lset[len(lset)-index-1] is
\* lset[Len(lset) - index] here; the read panics with an index out of range
\* when the label set has fewer labels than there are replica label names.
peekLset(s) ==
    LET lset == s.peek.Labels
        n == Cardinality(s.replicaLabels)
    IN  IF n = 0 THEN [panic |-> FALSE, lset |-> lset]
        ELSE IF \E index \in 0 .. n - 1 : Len(lset) - index < 1
        THEN [panic |-> TRUE, lset |-> << >>]
        ELSE LET totalToRemove ==
                     Cardinality({index \in 0 .. n - 1 :
                         lset[Len(lset) - index].Name \in s.replicaLabels})
             IN  [panic |-> FALSE,
                  lset |-> SubSeq(lset, 1, Len(lset) - totalToRemove)]

\* dedupSeriesSet.next, lines 466-483.
RECURSIVE DedupSetnext(_)
DedupSetnext(s) ==
    LET r == SliceNext(s.set)
        s1 == [s EXCEPT !.set = r.set, !.ok = r.ok]
    IN  IF ~r.ok
        THEN [ok |-> Len(s1.replicas) > 0, panic |-> FALSE, set |-> s1]
        ELSE LET s2 == [s1 EXCEPT !.peek = SliceAt(r.set)]
                 nextLset == peekLset(s2)
             IN  IF nextLset.panic
                 THEN [ok |-> FALSE, panic |-> TRUE, set |-> s2]
                 ELSE IF s2.lset # nextLset.lset
                 THEN [ok |-> TRUE, panic |-> FALSE, set |-> s2]
                 ELSE DedupSetnext(
                          [s2 EXCEPT !.replicas = Append(@, s2.peek)])

\* dedupSeriesSet.Next, lines 437-446.
DedupSetNext(s) ==
    IF ~s.ok THEN [ok |-> FALSE, panic |-> FALSE, set |-> s]
    ELSE LET l == peekLset(s)
         IN  IF l.panic THEN [ok |-> FALSE, panic |-> TRUE, set |-> s]
             ELSE DedupSetnext(
                      [s EXCEPT !.lset = l.lset, !.replicas = <<s.peek>>])

\* dedupSeriesSet.At, lines 485-493, with seriesWithLabels (499-504) and
\* newDedupSeries (lines 511-513).
DedupSetAt(s) ==
    IF Len(s.replicas) = 1
    THEN [kind |-> "seriesWithLabels", Series |-> s.replicas[1],
          lset |-> s.lset]
    ELSE [kind |-> "dedupSeries", lset |-> s.lset, replicas |-> s.replicas]

\* dedupSeriesSet.Err, lines 495-497.
DedupSetErr(s) == SliceErr(s.set)

\* dedupSeries.Iterator, lines 519-525: the merge of the replicas' cursors,
\* folded from the left.
RECURSIVE FoldIterators(_, _)
FoldIterators(it, rest) ==
    IF rest = << >> THEN it
    ELSE FoldIterators(
             newDedupSeriesIterator(it, SeriesIterator(Head(rest))),
             Tail(rest))

dedupSeriesIterator(s) ==
    FoldIterators(SeriesIterator(s.replicas[1]), Tail(s.replicas))

\* The cursor of a series the dedup set returns: seriesWithLabels embeds the
\* series and so its Iterator.
EmittedIterator(s) ==
    IF s.kind = "seriesWithLabels" THEN SeriesIterator(s.Series)
    ELSE dedupSeriesIterator(s)

---------------------------------------------------------------------------
(* SpecSet: the replica dedup set over any stream of series and any set of *)
(* replica label names, advanced with Next until after it has returned     *)
(* false or the read of a label has panicked.                              *)

\* The label names, in their sort order, and the label values.
LabelNames == <<"a", "r", "s">>
LabelValues == {"1", "2"}

\* The label sets: sorted by name, no name twice.
LabelSetsOver(p) ==
    {[k \in 1 .. Len(p) |-> [Name |-> LabelNames[p[k]], Value |-> v[k]]] :
        v \in [1 .. Len(p) -> LabelValues]}
LabelSets ==
    UNION {LabelSetsOver(p) :
              p \in IncSeqs(1 .. Len(LabelNames), Len(LabelNames))}

ReplicaLabelSets == SUBSET Range(LabelNames)

\* The stream that gives the series of the label sets ls, in this order.
StreamOf(ls) == [k \in 1 .. Len(ls) |-> [Labels |-> ls[k], id |-> k]]

InitSet ==
    /\ dset \in {newDedupSeriesSet(SliceSet(StreamOf(ls)), R) :
                    ls \in SeqsUpTo(LabelSets, MaxSeries),
                    R \in ReplicaLabelSets}
    /\ dsout = [log |-> << >>, ret |-> "none"]
    /\ IdleChunk /\ IdleBounded /\ IdleDedup /\ IdleOrder /\ IdleGroup

CallDedupSetNext ==
    /\ dsout.ret # "panic"
    /\ LET r == DedupSetNext(dset)
       IN  /\ dset' = r.set
           /\ dsout' = [log |-> IF r.ok THEN Append(dsout.log, DedupSetAt(r.set))
                                ELSE dsout.log,
                        ret |-> IF r.panic THEN "panic" ELSE Ret(r.ok)]
    /\ UNCHANGED <<chunkVars, boundedVars, dedupVars, orderVars, groupVars>>

NextSet == CallDedupSetNext

SpecSet == InitSet /\ [][NextSet]_vars

---------------------------------------------------------------------------
(* Claims about the replica dedup set. *)

\* The stripped identity of a series of the stream, as peekLset computes it.
StrippedOf(series) ==
    peekLset([peek |-> series, replicaLabels |-> dset.replicaLabels])

\* The maximal runs of consecutive series with equal stripped identity: the
\* identity and the members of each run, in stream order.
RECURSIVE ReplicaGroups(_)
ReplicaGroups(in) ==
    IF in = << >> THEN << >>
    ELSE LET h == Head(in)
             rest == ReplicaGroups(Tail(in))
             l == StrippedOf(h).lset
         IN  IF rest # << >> /\ rest[1].lset = l
             THEN <<[lset |-> l, members |-> <<h>> \o rest[1].members]>>
                      \o Tail(rest)
             ELSE <<[lset |-> l, members |-> <<h>>]>> \o rest

\* The members of a series the dedup set has returned.
MembersOf(s) ==
    IF s.kind = "seriesWithLabels" THEN <<s.Series>> ELSE s.replicas

\* C8: over any stream the dedup set completes every Next and emits the runs
\* of equal stripped identity one per run and in order, each with the
\* stripped identity as label set and exactly the run's series as members; a
\* group of one exposes the cursor of its member, a larger group the merge
\* of its members' cursors; exhaustion is reported after the last run only.
C8_OneSeriesPerReplicaGroup ==
    /\ dsout.ret # "panic"
    /\ LET groups == ReplicaGroups(dset.set.series)
       IN  /\ Len(dsout.log) <= Len(groups)
           /\ \A k \in 1 .. Len(dsout.log) :
                  /\ k <= Len(groups)
                  /\ dsout.log[k].lset = groups[k].lset
                  /\ MembersOf(dsout.log[k]) = groups[k].members
                  /\ Len(groups[k].members) = 1 =>
                         EmittedIterator(dsout.log[k])
                             = SeriesIterator(groups[k].members[1])
                  /\ Len(groups[k].members) > 1 =>
                         EmittedIterator(dsout.log[k])
                             = FoldIterators(
                                   SeriesIterator(groups[k].members[1]),
                                   Tail(groups[k].members))
           /\ dsout.ret = "false" => Len(dsout.log) = Len(groups)

\* The replica labels of the label set come after all its other labels.
ReplicaLabelsLast(lset, R) ==
    \A j, k \in 1 .. Len(lset) :
        (j < k /\ lset[j].Name \in R) => lset[k].Name \in R

\* The label set without the labels whose name is a replica label name.
RECURSIVE FilterByName(_, _)
FilterByName(lset, R) ==
    IF lset = << >> THEN << >>
    ELSE IF Head(lset).Name \in R THEN FilterByName(Tail(lset), R)
    ELSE <<Head(lset)>> \o FilterByName(Tail(lset), R)

\* C9: whenever Next has stripped the label set of the series it peeks at,
\* and that label set has its replica labels at the end, the stripped
\* identity is the label set without the labels named by a replica label.
C9_StripEqualsFilter ==
    (dsout.ret # "none" /\ dset.ok
        /\ ReplicaLabelsLast(dset.peek.Labels, dset.replicaLabels))
    => peekLset(dset)
           = [panic |-> FALSE,
              lset |-> FilterByName(dset.peek.Labels, dset.replicaLabels)]

---------------------------------------------------------------------------
(* SpecDedupErr: a replica dedup iterator of which at least one side ends  *)
(* with an error, driven by any sequence of Next and Seek calls.           *)

\* A side of SpecDedupErr holds at most MaxErrSide samples.
MaxErrSide == 2

MkSide(side, ts, bad) ==
    IF bad THEN FailingSide(SideSamples(side, ts))
    ELSE SideCursor(SideSamples(side, ts))

InitDedupErr ==
    /\ \E ta, tb \in IncSeqs(DedupTimes, MaxErrSide) :
       \E badA, badB \in BOOLEAN :
           /\ badA \/ badB
           /\ dit = newDedupSeriesIterator(MkSide(0, ta, badA),
                                           MkSide(1, tb, badB))
    /\ dcall = [op |-> "none", arg |-> 0, ok |-> FALSE, sought |-> FALSE]
    /\ dout = << >>
    /\ IdleChunk /\ IdleBounded /\ IdleOrder /\ IdleGroup /\ IdleSet

SpecDedupErr == InitDedupErr /\ [][NextDedup]_vars

\* C11: once a side of the dedup iterator has reported an error, Err of the
\* dedup iterator is non-nil and the call that met the error, and every later
\* Next and Seek, returns false.
C11_ErrorAborts ==
    (dcall.op # "none" /\ (SideErr(dit.a) \/ SideErr(dit.b)))
    => (DedupErr(dit) /\ ~dcall.ok)

\* C19: whenever Next has stripped the label set of the series it peeks at,
\* the computation has completed without a read outside the label set, and
\* its result is a prefix of the label set.
C19_StripReadsInside ==
    (dsout.ret # "none" /\ dset.ok) =>
        LET l == peekLset(dset)
        IN  /\ ~l.panic
            /\ Len(l.lset) <= Len(dset.peek.Labels)
            /\ l.lset = SubSeq(dset.peek.Labels, 1, Len(l.lset))

---------------------------------------------------------------------------
(* chunkSeries.Iterator, lines 198-283.  An AggrChunk here is a record of  *)
(* its payloads Raw, Count, Sum, Min, Max and Counter, each Nil or a chunk *)
(* [Type, Data]: the encoding tag and the samples the data decodes to.     *)

\* The payload a chunk does not carry (a nil *storepb.Chunk).
Nil == [Type |-> "nil", Data |-> << >>]

\* chunkenc.FromData with chunkEncoding, lines 290-296 and 299-305: only the
\* XOR tag decodes.
FromData(c) ==
    IF c.Type = "XOR" THEN XorIterator(c.Data, FALSE)
    ELSE ErrSeriesIterator(TRUE)

\* getFirstIterator, lines 285-297.
RECURSIVE getFirstIterator(_)
getFirstIterator(cs) ==
    IF cs = << >> THEN ErrSeriesIterator(TRUE)
    ELSE IF Head(cs) = Nil THEN getFirstIterator(Tail(cs))
    ELSE FromData(Head(cs))

\* The payload of a chunk that a single aggregate asks for, lines 203-225.
PayloadOf(c, aggr) ==
    CASE aggr = "COUNT" -> c.Count
      [] aggr = "SUM" -> c.Sum
      [] aggr = "MIN" -> c.Min
      [] aggr = "MAX" -> c.Max
      [] aggr = "COUNTER" -> c.Counter

\* downsample.NewAverageChunkIterator: sum(t) / count(t) per sample, and an
\* error cursor when either payload is not usable.
NewAverageChunkIterator(cnt, sum) ==
    IF cnt.kind = "err" \/ sum.kind = "err" THEN ErrSeriesIterator(TRUE)
    ELSE XorIterator(
             [k \in 1 .. Len(sum.smp) |->
                 Sample(sum.smp[k].t, sum.smp[k].v \div cnt.smp[k].v)],
             FALSE)

\* downsample.NewCounterSeriesIterator: one cursor across the chunk cursors;
\* the reconstruction of the counter's value is left out.
NewCounterSeriesIterator(its) == newChunkSeriesIterator(its)

\* chunkSeries.Iterator, lines 198-283.
Iterator(s) ==
    IF Len(s.aggrs) = 1
    THEN LET its == [k \in 1 .. Len(s.chunks) |->
                        getFirstIterator(<<PayloadOf(s.chunks[k], s.aggrs[1]),
                                           s.chunks[k].Raw>>)]
         IN  IF s.aggrs[1] \in {"COUNT", "SUM", "MIN", "MAX"}
             THEN newBoundedSeriesIterator(newChunkSeriesIterator(its),
                                           s.mint, s.maxt)
             ELSE IF s.aggrs[1] = "COUNTER"
             THEN newBoundedSeriesIterator(NewCounterSeriesIterator(its),
                                           s.mint, s.maxt)
             ELSE ErrSeriesIterator(TRUE)
    ELSE IF Len(s.aggrs) # 2 THEN ErrSeriesIterator(TRUE)
    ELSE IF \/ s.aggrs = <<"SUM", "COUNT">>
            \/ s.aggrs = <<"COUNT", "SUM">>
    THEN LET its == [k \in 1 .. Len(s.chunks) |->
                        IF s.chunks[k].Raw # Nil
                        THEN getFirstIterator(<<s.chunks[k].Raw>>)
                        ELSE NewAverageChunkIterator(
                                 getFirstIterator(<<s.chunks[k].Count>>),
                                 getFirstIterator(<<s.chunks[k].Sum>>))]
         IN  newBoundedSeriesIterator(newChunkSeriesIterator(its),
                                      s.mint, s.maxt)
    ELSE ErrSeriesIterator(TRUE)

\* The calls through the storage.SeriesIterator interface on what
\* chunkSeries.Iterator returned: a boundedSeriesIterator or an
\* errSeriesIterator.
IsBounded(it) == "mint" \in DOMAIN it
SeriesNext(it) == IF IsBounded(it) THEN BoundedNext(it) ELSE ErrNext(it)
SeriesSeek(it, t) ==
    IF IsBounded(it) THEN BoundedSeek(it, t) ELSE ErrSeek(it, t)
SeriesAt(it) == IF IsBounded(it) THEN BoundedAt(it) ELSE ErrAt(it)
SeriesErr(it) == IF IsBounded(it) THEN BoundedErr(it) ELSE ErrErr(it)

---------------------------------------------------------------------------
(* SpecAggr: the cursor chunkSeries.Iterator returns for any request of    *)
(* aggregates over chunks carrying any payloads, driven by any sequence of *)
(* Next and Seek calls.  Requests for the counter aggregate, whose cursor  *)
(* is built outside this file, are not among the inputs.                   *)

AggrKinds == {"RAW", "COUNT", "SUM", "MIN", "MAX"}

\* The requests: no aggregate, one, two, and one list of three.
AggrRequests == SeqsUpTo(AggrKinds, 2) \cup {<<"SUM", "COUNT", "MIN">>}

\* The payload of chunk k with value v: one sample at time k.
PayloadAt(type, k, v) == [Type |-> type, Data |-> <<Sample(k, v)>>]

\* The chunks at position k of a series: with or without raw data, count
\* (possibly with an unknown encoding tag) and sum.
PayloadChunks(k) ==
    {[Raw |-> raw, Count |-> cnt, Sum |-> sum,
      Min |-> Nil, Max |-> Nil, Counter |-> Nil] :
        raw \in {Nil, PayloadAt("XOR", k, 7)},
        cnt \in {Nil, PayloadAt("XOR", k, 2), PayloadAt("other", k, 2)},
        sum \in {Nil, PayloadAt("XOR", k, 10)}}

PayloadChunkLists ==
    UNION {{cs \in [1 .. n -> UNION {PayloadChunks(k) : k \in 1 .. n}] :
               \A k \in 1 .. n : cs[k] \in PayloadChunks(k)} :
              n \in 1 .. MaxChunks}

ChunkSeriesInputs ==
    {[chunks |-> cs, aggrs |-> rq, mint |-> mint, maxt |-> MaxT] :
        cs \in PayloadChunkLists, rq \in AggrRequests, mint \in {0, 1}}

InitAggr ==
    /\ \E s \in ChunkSeriesInputs :
           /\ bit = Iterator(s)
           /\ bcall = [op |-> "none", arg |-> 0, ok |-> FALSE, first |-> FALSE,
                       series |-> s]
    /\ IdleChunk /\ IdleDedup /\ IdleOrder /\ IdleGroup /\ IdleSet

CallSeriesNext ==
    LET r == SeriesNext(bit)
    IN  /\ bit' = r.it
        /\ bcall' = [bcall EXCEPT !.op = "Next", !.arg = 0, !.ok = r.ok,
                                  !.first = (bcall.op = "none")]
        /\ UNCHANGED <<chunkVars, dedupVars, orderVars, groupVars, setVars>>

CallSeriesSeek ==
    \E t \in SeekTargets :
        LET r == SeriesSeek(bit, t)
        IN  /\ bit' = r.it
            /\ bcall' = [bcall EXCEPT !.op = "Seek", !.arg = t, !.ok = r.ok,
                                      !.first = (bcall.op = "none")]
            /\ UNCHANGED <<chunkVars, dedupVars, orderVars, groupVars,
                           setVars>>

NextAggr == CallSeriesNext \/ CallSeriesSeek

SpecAggr == InitAggr /\ [][NextAggr]_vars

\* The request is a single aggregate of count, sum, min, max or counter, or
\* the pair sum and count in either order.
ValidRequest(aggrs) ==
    \/ Len(aggrs) = 1
       /\ aggrs[1] \in {"COUNT", "SUM", "MIN", "MAX", "COUNTER"}
    \/ aggrs = <<"SUM", "COUNT">>
    \/ aggrs = <<"COUNT", "SUM">>

\* The request is a single aggregate and no chunk of the series carries its
\* payload or raw data.
NoPayload(s) ==
    /\ Len(s.aggrs) = 1 /\ ValidRequest(s.aggrs)
    /\ \A k \in 1 .. Len(s.chunks) :
           PayloadOf(s.chunks[k], s.aggrs[1]) = Nil /\ s.chunks[k].Raw = Nil

\* C12: the first Next or Seek on the cursor of a series whose request is
\* not valid, or whose chunks carry no payload for its single aggregate,
\* returns false, and Err is non-nil.
C12_ErrorOnFirstQuery ==
    (bcall.first /\ (~ValidRequest(bcall.series.aggrs)
                         \/ NoPayload(bcall.series)))
    => (~bcall.ok /\ SeriesErr(bit))

---------------------------------------------------------------------------
(* SpecDrain: a bounded iterator over a chunk series iterator whose        *)
(* samples have strictly increasing timestamps, drained with Next only,    *)
(* until after it has returned false.                                      *)

\* The samples of the wrapped cursor: what draining it with Next yields.
RECURSIVE SamplesByNext(_)
SamplesByNext(it) ==
    LET r == SNext(it)
    IN  IF r.ok THEN <<SAt(r.it)>> \o SamplesByNext(r.it) ELSE << >>

TimestampsOf(smp) == [k \in 1 .. Len(smp) |-> smp[k].t]

\* The chunk lists of SpecDrain: at most MaxLen + 1 samples in all.  Its
\* wrapped cursors are those with strictly increasing timestamps.
DrainShapes ==
    {s \in SeqsUpTo(CleanShapes, MaxChunks) : SamplesIn(s) <= MaxLen + 1}

InitDrain ==
    /\ bit \in {newBoundedSeriesIterator(
                    newChunkSeriesIterator(MkChunks(s)), mint, maxt) :
                    s \in DrainShapes, mint \in Times, maxt \in Times}
    /\ bit.mint <= bit.maxt
    /\ bcall = [log |-> << >>, ret |-> "none",
                wrapped |-> SamplesByNext(bit.it)]
    /\ StrictlyIncreasing(TimestampsOf(bcall.wrapped))
    /\ IdleChunk /\ IdleDedup /\ IdleOrder /\ IdleGroup /\ IdleSet

CallDrainNext ==
    LET r == BoundedNext(bit)
    IN  /\ bit' = r.it
        /\ bcall' = [bcall EXCEPT
                         !.log = IF r.ok THEN Append(@, BoundedAt(r.it))
                                 ELSE @,
                         !.ret = Ret(r.ok)]
        /\ UNCHANGED <<chunkVars, dedupVars, orderVars, groupVars, setVars>>

NextDrain == CallDrainNext

SpecDrain == InitDrain /\ [][NextDrain]_vars

\* The samples of smp within [mint, maxt], in order.
WithinWindow(smp, mint, maxt) ==
    LET InWindow(x) == mint <= x.t /\ x.t <= maxt
    IN  SelectSeq(smp, InWindow)

\* C14: over a wrapped cursor whose samples have strictly increasing
\* timestamps, the samples a bounded iterator has emitted under Next are the
\* first of the wrapped samples within [mint, maxt], in order and each once,
\* and once Next has returned false they are all of them.
C14_DrainEmitsWindow ==
    LET smp == bcall.wrapped
        win == WithinWindow(smp, bit.mint, bit.maxt)
    IN  StrictlyIncreasing(TimestampsOf(smp)) =>
            /\ Len(bcall.log) <= Len(win)
            /\ bcall.log = SubSeq(win, 1, Len(bcall.log))
            /\ bcall.ret = "false" => bcall.log = win

\* The drain has ended after one sample, the second of the wrapped samples:
\* the window starts strictly after the first.
C14_Witness ==
    LET smp == bcall.wrapped
    IN  /\ StrictlyIncreasing(TimestampsOf(smp)) /\ Len(smp) = 2
        /\ smp[1].t < bit.mint
        /\ bcall.ret = "false" /\ bcall.log = <<smp[2]>>

---------------------------------------------------------------------------
(* SpecDup: removeExactDuplicates applied, and applied again to its        *)
(* result, over any chunk list, sorted or not.                             *)

\* A chunk list holds at most MaxDupLen chunks.
MaxDupLen == 4

InitDup ==
    /\ gset \in SeqsUpTo(AggrChunks, MaxDupLen)
    /\ gout = [n |-> 0, once |-> << >>, out |-> gset]
    /\ IdleChunk /\ IdleBounded /\ IdleDedup /\ IdleOrder /\ IdleSet

CallRemoveExactDuplicates ==
    /\ gout.n < 2
    /\ gout' = [n |-> gout.n + 1, once |-> gout.out,
                out |-> removeExactDuplicates(gout.out)]
    /\ UNCHANGED <<gset, chunkVars, boundedVars, dedupVars, orderVars,
                   setVars>>

NextDup == CallRemoveExactDuplicates

SpecDup == InitDup /\ [][NextDup]_vars

\* a is b with some elements left out: b's order is kept.
RECURSIVE IsSubsequence(_, _)
IsSubsequence(a, b) ==
    IF a = << >> THEN TRUE
    ELSE IF b = << >> THEN FALSE
    ELSE IF Head(a) = Head(b) THEN IsSubsequence(Tail(a), Tail(b))
    ELSE IsSubsequence(a, Tail(b))

\* C15: the result of removeExactDuplicates is its argument with some chunks
\* left out, every chunk left out being one of the argument's, in the
\* argument's order; applied to its own result it returns that result.
C15_Idempotent ==
    /\ gout.n >= 1 =>
           /\ IsSubsequence(gout.out, gset)
           /\ Range(gout.out) = Range(gset)
    /\ gout.n = 2 => gout.out = gout.once

\* The function has been applied twice to a list from which the first
\* application removed a chunk and left several.
C15_Witness ==
    /\ gout.n = 2 /\ Len(gset) = MaxDupLen
    /\ Len(gout.once) < Len(gset) /\ Len(gout.once) >= 2

===========================================================================
